---- MODULE Spec2Model ----
(***************************************************************************)
(* Battleship contract (src/src/lib.rs) together with its secret           *)
(* computation (src/src/zk_compute.rs).  The contract state and the part   *)
(* of the zk state the handlers read (calculation_state, secret_variables) *)
(* are the variables; every handler of the contract is one action, which   *)
(* includes the zk state change the handler returns.  A handler that       *)
(* panics leaves everything unchanged except `last`, which records the     *)
(* outcome of the latest event.                                            *)
(***************************************************************************)
EXTENDS Integers, Sequences, FiniteSets, TLC

\* ---------------------------------------------------------------- bounds
\* accepted secret inputs (pending or confirmed) the model explores
MaxInputs == 3
\* accepted shots (in flight or finished) the model explores
MaxShots == 3

\* identities that may send transactions; the first two may be registered
Addresses == {"p1", "p2", "p3"}
\* identities initialize may be given: player_a is p1, player_b is p1 or p2
\* (initialize does not require the two to differ)
PlayersA == {"p1"}
PlayersB == {"p1", "p2"}
\* concealed board values a player may submit: the two values the derived
\* guess can take
PlacementValues == {0, 1}
\* positions a player may shoot at
Positions == {0, 5}

\* ---------------------------------------------------------------- Option<T>
None == << >>
Some(x) == <<x>>
IsSome(o) == o # << >>
Unwrap(o) == o[1]

VARIABLES
    player_a, player_b, next_turn, winner, hit_a, hit_b, game_state,
    calculation_state, secret_variables, pending_inputs, computation,
    open_requests, last

contractState == <<player_a, player_b, next_turn, winner, hit_a, hit_b, game_state>>
zkState == <<calculation_state, secret_variables, pending_inputs, computation, open_requests>>
vars == <<contractState, zkState, last>>

\* ---------------------------------------------------------------- helpers
\* get_player_id taking every sender other than player_a for player_b
get_player_id_else_b(sender) ==
    IF sender = player_a THEN Some(FALSE) ELSE Some(TRUE)

\* get_player_id: Some(FALSE) for player_a, Some(TRUE) for player_b,
\* None where the code panics ("is not a player")
get_player_id(sender) ==
    IF sender = player_a THEN Some(FALSE)
    ELSE IF sender = player_b THEN Some(TRUE)
    ELSE None

\* get_player_address with the two branches exchanged
get_player_address_swapped(id) == IF id THEN player_a ELSE player_b

get_player_address(id) == IF id THEN player_b ELSE player_a

\* calculate_winner crediting the player whose board was hit
calculate_winner_swapped(ha, hb) ==
    IF Unwrap(ha) /\ Unwrap(hb) THEN None
    ELSE IF Unwrap(ha) THEN Some(player_a)
    ELSE IF Unwrap(hb) THEN Some(player_b)
    ELSE None

calculate_winner(ha, hb) ==
    IF Unwrap(ha) /\ Unwrap(hb) THEN None
    ELSE IF Unwrap(ha) THEN Some(player_b)
    ELSE IF Unwrap(hb) THEN Some(player_a)
    ELSE None

\* u32 <-> 4 little-endian bytes
to_le_bytes(n) ==
    << n % 256, (n \div 256) % 256, (n \div 65536) % 256, (n \div 16777216) % 256 >>
from_le_bytes(b) == b[1] + 256 * b[2] + 65536 * b[3] + 16777216 * b[4]

\* read_variable_u32_le: the opened data of variable id as a u32
read_variable_u32_le(vs, id) == from_le_bytes(Unwrap(vs[id].data))

\* zk_compute: the first stored variable whose metadata equals target is
\* compared with the guess derived from position
RECURSIVE zk_scan(_, _, _, _)
zk_scan(vs, i, target, guess) ==
    IF i > Len(vs) THEN 0
    ELSE IF vs[i].metadata.player = target
         THEN (IF vs[i].secret = guess THEN 1 ELSE 0)
         ELSE zk_scan(vs, i + 1, target, guess)

\* zk_compute comparing the placement with the position itself
zk_compute_direct(vs, target, position) == zk_scan(vs, 1, target, position)

zk_compute(vs, target, position) ==
    LET guess == IF position # 0 THEN 1 ELSE 0
    IN  zk_scan(vs, 1, target, guess)

InputCount == Len(pending_inputs) + Cardinality({i \in DOMAIN secret_variables : secret_variables[i].kind = "input"})
ShotCount == Len(computation) + Cardinality({i \in DOMAIN secret_variables : secret_variables[i].kind = "output"})

Outcome(op, sender, err) == [op |-> op, sender |-> sender, err |-> err]

\* outcome of a variables-opened event that delivered n variables
Disclosure(n, err) ==
    [op |-> "open_auction_variable", sender |-> "engine", err |-> err, count |-> n]

\* vs without the variables whose index is listed in ids
RECURSIVE delete_from(_, _, _)
delete_from(vs, i, ids) ==
    IF i > Len(vs) THEN << >>
    ELSE (IF \E k \in DOMAIN ids : ids[k] = i THEN << >> ELSE << vs[i] >>)
            \o delete_from(vs, i + 1, ids)

RemoveAt(s, i) == SubSeq(s, 1, i - 1) \o SubSeq(s, i + 1, Len(s))

\* ---------------------------------------------------------------- Init
\* initialize(player_a, player_b) with a fresh zk state
Init ==
    /\ player_a \in PlayersA
    /\ player_b \in PlayersB
    /\ next_turn = player_a
    /\ winner = None
    /\ hit_a = None
    /\ hit_b = None
    /\ game_state = "Setup"
    /\ calculation_state = "Waiting"
    /\ secret_variables = << >>
    /\ pending_inputs = << >>
    /\ computation = << >>
    /\ open_requests = << >>
    /\ last = Outcome("initialize", player_a, "Ok")

\* ---------------------------------------------------------------- actions
\* setup_board: secret input; the engine keeps it pending until confirmed
setup_board(sender, value) ==
    IF get_player_id(sender) = None
    THEN /\ last' = Outcome("setup_board", sender, "UnauthorizedCaller")
         /\ UNCHANGED <<contractState, zkState>>
    ELSE /\ InputCount < MaxInputs
         /\ pending_inputs' = Append(pending_inputs,
                [metadata |-> [player |-> Unwrap(get_player_id(sender))], secret |-> value,
                 origin |-> sender])
         /\ last' = Outcome("setup_board", sender, "Ok")
         /\ UNCHANGED <<contractState, calculation_state, secret_variables, computation, open_requests>>

\* inputted_phase with >= in place of ==
inputted_phase_at_least(amount_of_boards, phase) ==
    IF amount_of_boards >= 2 THEN "Playing" ELSE phase

\* inputted_phase starting the game at the first stored variable
inputted_phase_first(amount_of_boards, phase) ==
    IF amount_of_boards = 1 THEN "Playing" ELSE phase

\* phase after a variable was inputted, given the number of stored variables
inputted_phase(amount_of_boards, phase) ==
    IF amount_of_boards = 2 THEN "Playing" ELSE phase

\* inputted_variable: the engine confirms pending input i, stores it and
\* calls the handler
inputted_variable(i) ==
    /\ i \in DOMAIN pending_inputs
    /\ secret_variables' = Append(secret_variables,
            [kind |-> "input", metadata |-> pending_inputs[i].metadata,
             secret |-> pending_inputs[i].secret, data |-> None,
             origin |-> pending_inputs[i].origin])
    /\ pending_inputs' = RemoveAt(pending_inputs, i)
    /\ game_state' = inputted_phase(Len(secret_variables'), game_state)
    /\ last' = Outcome("inputted_variable", "engine", "Ok")
    /\ UNCHANGED <<player_a, player_b, next_turn, winner, hit_a, hit_b,
                   calculation_state, computation, open_requests>>

\* shoot_error with the phase assertion ahead of the turn assertion
shoot_error_phase_first(sender) ==
    IF game_state # "Playing" THEN "GameNotPlayable"
    ELSE IF sender # next_turn THEN "NotYourTurn"
    ELSE IF calculation_state # "Waiting" THEN "ComputationBusy"
    ELSE IF get_player_id(sender) = None THEN "UnauthorizedCaller"
    ELSE "Ok"

\* shoot_error without the phase assertion
shoot_error_no_phase(sender) ==
    IF sender # next_turn THEN "NotYourTurn"
    ELSE IF calculation_state # "Waiting" THEN "ComputationBusy"
    ELSE IF get_player_id(sender) = None THEN "UnauthorizedCaller"
    ELSE "Ok"

\* shoot_error without the calculation_state assertion
shoot_error_no_busy(sender) ==
    IF sender # next_turn THEN "NotYourTurn"
    ELSE IF game_state # "Playing" THEN "GameNotPlayable"
    ELSE IF get_player_id(sender) = None THEN "UnauthorizedCaller"
    ELSE "Ok"

\* the assertions of shoot, in the order of the code
shoot_error(sender) ==
    IF sender # next_turn THEN "NotYourTurn"
    ELSE IF game_state # "Playing" THEN "GameNotPlayable"
    ELSE IF calculation_state # "Waiting" THEN "ComputationBusy"
    ELSE IF get_player_id(sender) = None THEN "UnauthorizedCaller"
    ELSE "Ok"

\* shoot_target without the negation
shoot_target_self(player_id) == player_id

\* the player flag shoot puts in the output metadata and the inputs
shoot_target(player_id) == ~player_id

\* shoot_turn passing the turn to the targeted player already at the shot
shoot_turn_advance(sender) == get_player_address(~Unwrap(get_player_id(sender)))

\* next_turn in the state shoot returns: the state it was given
shoot_turn(sender) == next_turn

shoot(sender, position) ==
    IF shoot_error(sender) # "Ok"
    THEN /\ last' = Outcome("shoot", sender, shoot_error(sender))
         /\ UNCHANGED <<contractState, zkState>>
    ELSE /\ ShotCount < MaxShots
         /\ computation' = Append(computation,
                [metadata |-> [player |-> shoot_target(Unwrap(get_player_id(sender)))],
                 target |-> shoot_target(Unwrap(get_player_id(sender))),
                 position |-> position, shooter |-> sender])
         /\ calculation_state' = "Calculating"
         /\ next_turn' = shoot_turn(sender)
         /\ last' = Outcome("shoot", sender, "Ok")
         /\ UNCHANGED <<player_a, player_b, winner, hit_a, hit_b, game_state,
                        secret_variables, pending_inputs, open_requests>>

\* variables_to_open asking for nothing
variables_to_open_none(output_variables) == << >>

\* the variables auction_compute_complete asks the engine to open
variables_to_open(output_variables) == output_variables

\* auction_compute_complete: the engine finishes the oldest computation,
\* stores its output and the handler asks to open the outputs it was given
auction_compute_complete ==
    /\ computation # << >>
    /\ LET c == Head(computation)
           out == [kind |-> "output", metadata |-> c.metadata,
                   secret |-> zk_compute(secret_variables, c.target, c.position),
                   data |-> None, origin |-> c.shooter]
           output_variables == << Len(secret_variables) + 1 >>
       IN  /\ secret_variables' = Append(secret_variables, out)
           /\ open_requests' = Append(open_requests, variables_to_open(output_variables))
    /\ computation' = Tail(computation)
    /\ calculation_state' = "Output"
    /\ last' = Outcome("auction_compute_complete", "engine", "Ok")
    /\ UNCHANGED <<contractState, pending_inputs>>

\* record_hit_a losing the result
record_hit_a_dropped(shot_at, was_ship) == hit_a

\* hit slots after a disclosure for shot_at
record_hit_a(shot_at, was_ship) == IF shot_at = player_a THEN Some(was_ship # 0) ELSE hit_a
record_hit_b(shot_at, was_ship) == IF shot_at = player_a THEN hit_b ELSE Some(was_ship # 0)

\* both slots are set: the game ends
game_over(ha, hb) == IsSome(ha) /\ IsSome(hb)

\* phase_after looking at one slot only
phase_after_one_slot(ha, hb) == IF IsSome(hb) THEN "ENDED" ELSE game_state

\* phase and winner after the slots became ha, hb
phase_after(ha, hb) == IF game_over(ha, hb) THEN "ENDED" ELSE game_state
winner_after(ha, hb) == IF game_over(ha, hb) THEN calculate_winner(ha, hb) ELSE winner

\* turn_after leaving the turn with the shooter
turn_after_stay(shot_at) == next_turn

\* the player to move after a disclosure for shot_at
turn_after(shot_at) == shot_at

\* disclosure_error asserting only that some variable was opened
disclosure_error_nonempty(opened_variables) ==
    IF Len(opened_variables) < 1 THEN "MalformedDisclosure" ELSE "Ok"

\* the assertion of open_auction_variable on the number of opened variables
disclosure_error(opened_variables) ==
    IF Len(opened_variables) # 1 THEN "MalformedDisclosure" ELSE "Ok"

\* the deletion list open_auction_variable returns with OutputComplete
variables_to_delete(opened_variables) == << >>

\* the handler open_auction_variable on the event that opened_variables were
\* opened: the engine has made their data readable, the handler folds the
\* result into the contract state and the engine completes the output
variables_opened(opened_variables) ==
    LET opened == [i \in DOMAIN secret_variables |->
                     IF \E k \in DOMAIN opened_variables : opened_variables[k] = i
                     THEN [secret_variables[i] EXCEPT !.data = Some(to_le_bytes(secret_variables[i].secret))]
                     ELSE secret_variables[i]]
    IN  IF disclosure_error(opened_variables) # "Ok"
        THEN /\ last' = Disclosure(Len(opened_variables), disclosure_error(opened_variables))
             /\ UNCHANGED <<contractState, zkState>>
        ELSE LET was_ship == read_variable_u32_le(opened, opened_variables[1])
                 x == opened[opened_variables[1]]
                 shot_at == get_player_address(x.metadata.player)
                 ha == record_hit_a(shot_at, was_ship)
                 hb == record_hit_b(shot_at, was_ship)
             IN  /\ hit_a' = ha
                 /\ hit_b' = hb
                 /\ game_state' = phase_after(ha, hb)
                 /\ winner' = winner_after(ha, hb)
                 /\ next_turn' = turn_after(shot_at)
                 /\ secret_variables' = delete_from(opened, 1, variables_to_delete(opened_variables))
                 /\ open_requests' = Tail(open_requests)
                 /\ calculation_state' = "Waiting"
                 /\ last' = Disclosure(Len(opened_variables), "Ok")
                 /\ UNCHANGED <<player_a, player_b, pending_inputs, computation>>

\* open_auction_variable: the engine opens the variables of the oldest open
\* request and calls the handler with them
open_auction_variable ==
    /\ open_requests # << >>
    /\ variables_opened(Head(open_requests))

\* a variables-opened event that does not carry exactly one variable, while
\* an open request is pending: none, or the requested ones and one more
malformed_disclosure ==
    /\ open_requests # << >>
    /\ \/ variables_opened(<< >>)
       \/ \E extra \in DOMAIN secret_variables :
              variables_opened(Head(open_requests) \o << extra >>)

Next ==
    \/ \E sender \in Addresses, value \in PlacementValues : setup_board(sender, value)
    \/ \E i \in 1..MaxInputs : inputted_variable(i)
    \/ \E sender \in Addresses, position \in Positions : shoot(sender, position)
    \/ auction_compute_complete
    \/ open_auction_variable

Spec == Init /\ [][Next]_vars

\* a shoot that passes its assertions
accepted_shot ==
    \E sender \in Addresses, position \in Positions :
        shoot(sender, position) /\ Len(computation') > Len(computation)

\* the player to move eventually shoots and the engine eventually delivers
\* every completion and every disclosure
FairSpec ==
    /\ Spec
    /\ WF_vars(accepted_shot)
    /\ WF_vars(auction_compute_complete)
    /\ WF_vars(open_auction_variable)

\* the contract with an engine that may also deliver malformed disclosures
NextMalformed == Next \/ malformed_disclosure
SpecMalformed == Init /\ [][NextMalformed]_vars

\* ================================================================ claims
\* a computation was started by the step
ComputationStarted == Len(computation') > Len(computation)
\* the step is a shoot transaction
ShootStep == last'.op = "shoot"
\* computations started whose result the disclosure handler has not consumed
Outstanding == Len(computation) + Len(open_requests)

\* C1: a shoot starts a computation only if the caller is next_turn, the
\* phase is Playing and the calculation status is Waiting; a shoot failing
\* one of the three starts nothing and is rejected with NotYourTurn,
\* GameNotPlayable, ComputationBusy, the first failing check in that order
\* deciding the error.
C1_ShootGuards ==
    [][ /\ ComputationStarted =>
              /\ ShootStep /\ last'.err = "Ok"
              /\ last'.sender = next_turn
              /\ game_state = "Playing"
              /\ calculation_state = "Waiting"
        /\ ShootStep =>
              /\ last'.sender # next_turn =>
                    last'.err = "NotYourTurn" /\ UNCHANGED <<contractState, zkState>>
              /\ (last'.sender = next_turn /\ game_state # "Playing") =>
                    last'.err = "GameNotPlayable" /\ UNCHANGED <<contractState, zkState>>
              /\ (last'.sender = next_turn /\ game_state = "Playing"
                        /\ calculation_state # "Waiting") =>
                    last'.err = "ComputationBusy" /\ UNCHANGED <<contractState, zkState>>
      ]_vars

\* an accepted shot is in flight
C1_Witness ==
    /\ last = Outcome("shoot", next_turn, "Ok")
    /\ Len(computation) = 1
    /\ calculation_state = "Calculating"

\* C2 (as claimed): every shoot attempted while the phase is not Playing is
\* rejected with GameNotPlayable, whoever the caller is.
C2_Original ==
    (last.op = "shoot" /\ game_state # "Playing") => last.err = "GameNotPlayable"

\* C2 (amended): a shoot attempted while the phase is not Playing is rejected
\* with GameNotPlayable when the caller is next_turn and with NotYourTurn
\* otherwise (so B shooting in Setup, with next_turn = A, gets NotYourTurn).
C2_NotPlayable ==
    (last.op = "shoot" /\ game_state # "Playing") =>
        last.err = (IF last.sender = next_turn THEN "GameNotPlayable" ELSE "NotYourTurn")

\* the player to move shot after the game ended
C2_Witness ==
    /\ game_state = "ENDED"
    /\ last = Outcome("shoot", next_turn, "GameNotPlayable")

\* C3: at most one computation is outstanding; while one is outstanding no
\* shoot starts another, and a shoot by next_turn while Playing is rejected
\* with ComputationBusy.
C3_OneOutstanding ==
    /\ [](Outstanding <= 1)
    /\ [][ Outstanding # 0 =>
              /\ ~ComputationStarted
              /\ (ShootStep /\ last'.sender = next_turn /\ game_state = "Playing") =>
                    last'.err = "ComputationBusy"
          ]_vars

\* the shooter shot again while the first shot was outstanding
C3_Witness ==
    /\ Outstanding = 1
    /\ last = Outcome("shoot", next_turn, "ComputationBusy")

\* C4: the phase only moves Setup -> Playing -> ENDED, one step at a time,
\* and ENDED is never left.
C4_PhaseMonotone ==
    [][ \/ game_state' = game_state
        \/ game_state = "Setup" /\ game_state' = "Playing"
        \/ game_state = "Playing" /\ game_state' = "ENDED"
      ]_vars

\* a placement was confirmed after the game ended
C4_Witness ==
    /\ game_state = "ENDED"
    /\ last.op = "inputted_variable"

\* stored placements supplied with player flag id
Placements(id) ==
    {i \in DOMAIN secret_variables :
        secret_variables[i].kind = "input" /\ secret_variables[i].metadata.player = id}

\* C5: once the phase is Playing or ENDED the engine stores a placement
\* supplied by player A and a placement supplied by player B.
C5_BothPlaced ==
    (player_a # player_b /\ game_state \in {"Playing", "ENDED"}) =>
        (Placements(FALSE) # {} /\ Placements(TRUE) # {})

\* C6: the engine holds at most one placement per player, and no
\* submit_placement is accepted once the phase has left Setup.
C6_PlacedOnce ==
    player_a # player_b =>
        /\ Cardinality(Placements(FALSE)) <= 1
        /\ Cardinality(Placements(TRUE)) <= 1
        /\ (last.op = "setup_board" /\ last.err = "Ok") => game_state = "Setup"

\* the variable whose disclosure is delivered next
NextOpened == secret_variables[Head(open_requests)[1]]
\* the step is a disclosure accepted by the handler
DisclosureStep == open_requests # << >> /\ Len(open_requests') < Len(open_requests)
\* the hit slot of the player with flag id
Slot(id) == IF get_player_address(id) = player_a THEN hit_a ELSE hit_b

\* C7: for distinct players a hit slot that is Some never changes again,
\* and no shot in flight or disclosure pending targets a player whose slot
\* is already Some.
C7_SingleResult ==
    [][ player_a # player_b =>
          /\ IsSome(hit_a) => hit_a' = hit_a
          /\ IsSome(hit_b) => hit_b' = hit_b
          /\ \A k \in DOMAIN computation : Slot(computation[k].metadata.player) = None
          /\ DisclosureStep => Slot(NextOpened.metadata.player) = None
      ]_vars

\* both slots are set and a later event was handled
C7_Witness ==
    /\ player_a # player_b
    /\ IsSome(hit_a) /\ IsSome(hit_b)
    /\ last.op \in {"shoot", "inputted_variable"}

\* the winner named by the hit slots
OnlyAHit == hit_a = Some(TRUE) /\ hit_b = Some(FALSE)
OnlyBHit == hit_b = Some(TRUE) /\ hit_a = Some(FALSE)
WinnerAgrees ==
    /\ winner = Some(player_b) <=> OnlyAHit
    /\ winner = Some(player_a) <=> OnlyBHit
    /\ (~OnlyAHit /\ ~OnlyBHit) => winner = None

\* C8: the winner is B exactly when only A was hit, A exactly when only B
\* was hit, and None otherwise; once ENDED the winner never changes.
C8_WinnerConsistent ==
    /\ [](WinnerAgrees)
    /\ [][game_state = "ENDED" => winner' = winner]_vars

\* the game ended with B as the winner
C8_Witness ==
    /\ game_state = "ENDED"
    /\ player_a # player_b
    /\ winner = Some(player_b)

\* C9: the phase is ENDED exactly when both hit slots are set; the
\* disclosure that sets the second slot ends the game in the same step.
C9_EndedIffBothHit ==
    game_state = "ENDED" <=> (IsSome(hit_a) /\ IsSome(hit_b))

\* the second disclosure has just ended the game
C9_Witness ==
    /\ game_state = "ENDED"
    /\ last.op = "open_auction_variable"

\* C10: a consumed disclosure leaves next_turn at the address of the player
\* the shot targeted, the opponent of the shooter, also when it ends the
\* game; next_turn is always player_a or player_b.
C10_TurnAlternation ==
    /\ [](next_turn \in {player_a, player_b})
    /\ [][ DisclosureStep =>
              /\ next_turn' = get_player_address(NextOpened.metadata.player)
              /\ next_turn' = get_player_address(~Unwrap(get_player_id(NextOpened.origin)))
          ]_vars

\* the terminal shot, fired by B at A, was consumed
C10_Witness ==
    /\ player_a # player_b
    /\ game_state = "ENDED"
    /\ last.op = "open_auction_variable"
    /\ next_turn = player_a

\* C11: for distinct players the result of a shot is tagged with the flag of
\* the shooter's opponent and recorded in the opponent's slot as
\* (disclosed value # 0), the shooter's own slot staying as it was: a shot by
\* A sets hit_b, a shot by B sets hit_a.
C11_Attribution ==
    [][ (player_a # player_b /\ DisclosureStep) =>
          /\ NextOpened.metadata.player = ~Unwrap(get_player_id(NextOpened.origin))
          /\ NextOpened.origin = player_a =>
                /\ NextOpened.metadata.player = TRUE
                /\ hit_b' = Some(NextOpened.secret # 0)
                /\ hit_a' = hit_a
          /\ NextOpened.origin = player_b =>
                /\ NextOpened.metadata.player = FALSE
                /\ hit_a' = Some(NextOpened.secret # 0)
                /\ hit_b' = hit_b
      ]_vars

\* A's shot was consumed as a hit on B, A's own slot is still empty
C11_Witness ==
    /\ player_a # player_b
    /\ last.op = "open_auction_variable" /\ last.err = "Ok"
    /\ hit_b = Some(TRUE)
    /\ hit_a = None

\* the guess derived from a position
DerivedGuess(p) == IF p # 0 THEN 1 ELSE 0
\* the step completes the oldest computation
ComputeStep == computation # << >> /\ Len(computation') < Len(computation)
\* the lowest index in a non-empty set of indices
MinIndex(S) == CHOOSE i \in S : \A j \in S : i <= j

Strangers == Addresses \ {player_a, player_b}

\* C13: get_player_id fails for every identity other than player_a and
\* player_b; a transaction sent by such an identity is rejected and changes
\* neither the duel record nor the engine state: a setup_board fails with
\* UnauthorizedCaller and stores nothing, a shoot starts no computation.
C13_Authorization ==
    /\ [](\A s \in Strangers : get_player_id(s) = None)
    /\ [][ last'.sender \in Strangers =>
              /\ last'.err # "Ok"
              /\ last'.op = "setup_board" => last'.err = "UnauthorizedCaller"
              /\ UNCHANGED <<contractState, zkState>>
          ]_vars

\* a stranger tried to place a board while the game was being played
C13_Witness ==
    /\ last.op = "setup_board"
    /\ last.sender \in Strangers
    /\ last.err = "UnauthorizedCaller"
    /\ game_state = "Playing"

\* no result has been recorded yet
Fresh == winner = None /\ hit_a = None /\ hit_b = None

\* C14: from initialize on, the phase is Setup (next_turn = A, no result)
\* while fewer than two placements are stored; when the stored variables are
\* exactly one placement of A and one of B, in either order, the phase is
\* Playing with next_turn = A and still no result.
C14_SetupToPlaying ==
    /\ Cardinality(Placements(FALSE) \cup Placements(TRUE)) < 2 =>
            (game_state = "Setup" /\ next_turn = player_a /\ Fresh)
    /\ ( /\ Len(secret_variables) = 2
         /\ Cardinality(Placements(FALSE)) = 1
         /\ Cardinality(Placements(TRUE)) = 1 ) =>
            (game_state = "Playing" /\ next_turn = player_a /\ Fresh)

\* B's placement was confirmed first, A's second, and the game started
C14_Witness ==
    /\ last.op = "inputted_variable"
    /\ Len(secret_variables) = 2
    /\ secret_variables[1].origin = player_b
    /\ secret_variables[2].origin = player_a
    /\ player_a # player_b
    /\ game_state = "Playing"

\* the step is a variables-opened event carrying the one requested variable
SingleDisclosure ==
    open_requests # << >> /\ last'.op = "open_auction_variable" /\ last'.count = 1

\* C16: a disclosure whose result is tagged with a player whose hit slot is
\* already Some fails with DuplicateResult and leaves hit_a, hit_b, winner,
\* phase and next_turn as they were.
C16_DuplicateRejected ==
    [][ (SingleDisclosure /\ Slot(NextOpened.metadata.player) # None) =>
          /\ last'.err = "DuplicateResult"
          /\ UNCHANGED <<hit_a, hit_b, winner, game_state, next_turn>>
      ]_vars

\* C17: a variables-opened event that does not carry exactly one variable
\* fails with MalformedDisclosure, and every rejected shoot, placement or
\* disclosure leaves the duel record and the engine state (so: no request
\* issued) exactly as they were.
C17_RejectedIsAtomic ==
    [][ /\ last'.err # "Ok" => UNCHANGED <<contractState, zkState>>
        /\ (last'.op = "open_auction_variable" /\ last'.count # 1) =>
                last'.err = "MalformedDisclosure"
      ]_vars

\* a disclosure carrying two variables was rejected while a shot was outstanding
C17_Witness ==
    /\ last = Disclosure(2, "MalformedDisclosure")
    /\ Outstanding = 1
    /\ calculation_state = "Output"

\* the output variables stored so far, and those already opened
Outputs == {i \in DOMAIN secret_variables : secret_variables[i].kind = "output"}
OpenedOutputs == {i \in Outputs : secret_variables[i].data # None}

\* C18: the compute-complete handler requests the opening of exactly the one
\* output variable of the finished computation; an accepted disclosure
\* completes the output and deletes nothing, so the number of stored
\* variables never decreases; and a shot is accepted only when every earlier
\* shot has had its one open request made and its one disclosure consumed.
C18_OpenAndComplete ==
    [][ /\ ComputeStep =>
              /\ Len(secret_variables') = Len(secret_variables) + 1
              /\ secret_variables'[Len(secret_variables')].kind = "output"
              /\ open_requests' = Append(open_requests, << Len(secret_variables') >>)
        /\ DisclosureStep =>
              /\ Len(Head(open_requests)) = 1
              /\ Len(secret_variables') = Len(secret_variables)
              /\ OpenedOutputs' = OpenedOutputs \cup {Head(open_requests)[1]}
              /\ Head(open_requests)[1] \notin OpenedOutputs
              /\ calculation_state' = "Waiting"
        /\ Len(secret_variables') >= Len(secret_variables)
        /\ ComputationStarted =>
              /\ Outstanding = 0
              /\ OpenedOutputs = Outputs
      ]_vars

\* a second shot was accepted after the first one's result had been opened
C18_Witness ==
    /\ last.op = "shoot" /\ last.err = "Ok"
    /\ Len(computation) = 1
    /\ Cardinality(OpenedOutputs) = 1

\* next_turn names the shooter of every outstanding computation
ShooterKeepsTurn ==
    /\ \A k \in DOMAIN computation : computation[k].shooter = next_turn
    /\ open_requests # << >> => NextOpened.origin = next_turn

\* C19: shoot, setup_board and the compute-complete handler leave the duel
\* record unchanged, so next_turn names the shooter while the computation is
\* outstanding; only the disclosure handler changes hit_a, hit_b, winner or
\* next_turn, only the variable-inputted handler moves the phase to Playing,
\* and player_a, player_b never change.
C19_Frame ==
    /\ [](ShooterKeepsTurn)
    /\ [][ /\ last'.op \in {"shoot", "setup_board", "auction_compute_complete"} =>
                 UNCHANGED contractState
           /\ <<hit_a, hit_b, winner, next_turn>>' # <<hit_a, hit_b, winner, next_turn>> =>
                 last'.op = "open_auction_variable"
           /\ (game_state' = "Playing" /\ game_state # "Playing") =>
                 last'.op = "inputted_variable"
           /\ UNCHANGED <<player_a, player_b>>
         ]_vars

\* B's shot has been computed and awaits disclosure; the turn is still B's
C19_Witness ==
    /\ player_a # player_b
    /\ last.op = "auction_compute_complete"
    /\ open_requests # << >>
    /\ NextOpened.origin = player_b
    /\ next_turn = player_b

\* the accepted shots: by A at B first, by B at A second, and no third
ShotOrder ==
    /\ ShotCount <= 2
    /\ \A i \in Outputs :
          IF i = MinIndex(Outputs)
          THEN secret_variables[i].origin = player_a /\ secret_variables[i].metadata.player
          ELSE secret_variables[i].origin = player_b /\ ~secret_variables[i].metadata.player
    /\ \A k \in DOMAIN computation :
          IF Outputs = {}
          THEN computation[k].shooter = player_a /\ computation[k].target
          ELSE computation[k].shooter = player_b /\ ~computation[k].target
    /\ game_state = "ENDED" => Cardinality(OpenedOutputs) = 2

\* C20: for distinct players at most two shots are ever accepted, the first
\* by A targeting B and the second by B targeting A, the game being ENDED
\* exactly after the two; and when the player to move eventually shoots and
\* the engine eventually delivers, a game that is Playing eventually is ENDED.
C20_TwoShotsThenEnded ==
    /\ [](player_a # player_b => ShotOrder)
    /\ (player_a # player_b /\ game_state = "Playing") ~> (game_state = "ENDED")

\* the game ended after A's and B's shot
C20_Witness ==
    /\ player_a # player_b
    /\ game_state = "ENDED"
    /\ ShotCount = 2

====
